---- MODULE Spec2Model ----
(***************************************************************************)
(* Model of 42.py: the project scaffolding / build / run tool.             *)
(*                                                                         *)
(* A text (file content, path, flag string) is a sequence of symbols.  A   *)
(* symbol is one character, or a fixed piece of text that the program only *)
(* ever handles as a whole (for instance "CFLAGS" or "-Wall").             *)
(* The three symbols " ", "\t" and "\n" are the whitespace characters.     *)
(***************************************************************************)
EXTENDS Integers, Sequences, FiniteSets, TLC

VARIABLES
    config,     \* .42_config.yml : [exists, libft, minilibx]
    makefile,   \* ./Makefile : [exists, text]
    libftMk,    \* ./libft/Makefile : [exists, text]
    mlxMk,      \* ./minilibx/Makefile.mk : [exists, text]
    upLibft,    \* text of Makefile in the libft folder found in an ancestor
    gitignore,  \* ./.gitignore exists
    srcTree,    \* directory src: sequence of entries in listing order
    objDirs,    \* set of directories that exist under (and including) obj
    last,       \* what the most recent invocation of the tool did
    tick        \* parity of the number of invocations so far

vars == <<config, makefile, libftMk, mlxMk, upLibft, gitignore, srcTree, objDirs, last, tick>>

----------------------------------------------------------------------------
(* Text primitives (Python str methods used by the program)                *)

WS == {" ", "\t", "\n"}

NL == "\n"

\* the one element of a one-element set; Only({F(v) : v \in {e}}) is F(e)
\* with e evaluated once
Only(S) == CHOOSE x \in S : TRUE

Min(S) == CHOOSE x \in S : \A y \in S : x <= y

Max(S) == CHOOSE x \in S : \A y \in S : x >= y

\* s[i:i+len(p)] == p
IsPrefixAt(s, i, p) ==
    /\ i >= 1
    /\ i + Len(p) - 1 <= Len(s)
    /\ \A k \in 1..Len(p) : s[i + k - 1] = p[k]

\* p in s
Contains(s, p) == \E i \in 1..(Len(s) + 1) : IsPrefixAt(s, i, p)

\* s.endswith(p)
EndsWith(s, p) == IsPrefixAt(s, Len(s) - Len(p) + 1, p)

\* s.strip()
Strip(s) ==
    LET keep == {i \in 1..Len(s) : s[i] \notin WS}
    IN  IF keep = {} THEN <<>> ELSE SubSeq(s, Min(keep), Max(keep))

\* s.rstrip()
RStrip(s) ==
    LET keep == {i \in 1..Len(s) : s[i] \notin WS}
    IN  IF keep = {} THEN <<>> ELSE SubSeq(s, 1, Max(keep))

RECURSIVE ReplaceFrom(_, _, _, _)
ReplaceFrom(s, i, old, new) ==
    IF i > Len(s) THEN <<>>
    ELSE IF IsPrefixAt(s, i, old)
         THEN new \o ReplaceFrom(s, i + Len(old), old, new)
         ELSE <<s[i]>> \o ReplaceFrom(s, i + 1, old, new)

\* s.replace(old, new): every non-overlapping occurrence, left to right
Replace(s, old, new) == ReplaceFrom(s, 1, old, new)

RECURSIVE Join(_, _)
\* sep.join(parts)
Join(parts, sep) ==
    IF parts = <<>> THEN <<>>
    ELSE IF Len(parts) = 1 THEN parts[1]
    ELSE parts[1] \o sep \o Join(Tail(parts), sep)

----------------------------------------------------------------------------
\* The pattern of lines 237 and 249, matched with re.MULTILINE: line start,
\* CFLAGS, whitespace, one of ":", "?" or nothing, "=", whitespace, the rest
\* of the line (the value), line end.

Dash_g == <<"-", "g">>

\* first index >= i of s that is not whitespace (Len(s)+1 if none): greedy whitespace
SkipWS(s, i) ==
    LET stop == {j \in i..Len(s) : s[j] \notin WS}
    IN  IF stop = {} THEN Len(s) + 1 ELSE Min(stop)

\* first index >= i of s that holds a newline (Len(s)+1 if none): the value runs up to it
LineEnd(s, i) ==
    LET stop == {j \in i..Len(s) : s[j] = NL}
    IN  IF stop = {} THEN Len(s) + 1 ELSE Min(stop)

NoMatch == [ok |-> FALSE, op |-> <<>>, value |-> <<>>, end |-> 0]

\* the match of the pattern that starts at index i, if there is one;
\* end is the index just after the match
MatchAt(s, i) ==
    IF ~ (/\ i <= Len(s)
          /\ (i = 1 \/ s[i - 1] = NL)
          /\ s[i] = "CFLAGS")
    THEN NoMatch
    ELSE
      LET j == SkipWS(s, i + 1)
          opLen == IF j + 1 <= Len(s) /\ s[j] \in {":", "?"} /\ s[j + 1] = "="
                   THEN 1
                   ELSE IF j <= Len(s) /\ s[j] = "=" THEN 0 ELSE -1
      IN  IF opLen = -1 THEN NoMatch
          ELSE
            LET m == SkipWS(s, j + opLen + 1)
                e == LineEnd(s, m)
            IN  [ok |-> TRUE,
                 op |-> SubSeq(s, j, j + opLen - 1),
                 value |-> SubSeq(s, m, e - 1),
                 end |-> e]

RECURSIVE FindAllFrom(_, _)
\* the matches from index i on; a match starts at a line start only, so the
\* search goes on at the next line start when there is no match at i
FindAllFrom(s, i) ==
    IF i > Len(s) THEN <<>>
    ELSE LET m == MatchAt(s, i)
         IN  IF m.ok THEN <<m>> \o FindAllFrom(s, m.end)
                     ELSE FindAllFrom(s, LineEnd(s, i) + 1)

\* re.findall(pattern, s, re.MULTILINE)
FindAll(s) == FindAllFrom(s, 1)

RECURSIVE SubFrom(_, _, _)
SubFrom(s, i, repl) ==
    IF i > Len(s) THEN <<>>
    ELSE LET m == MatchAt(s, i)
             next == LineEnd(s, i) + 1
         IN  IF m.ok THEN repl \o SubFrom(s, m.end, repl)
                     ELSE SubSeq(s, i, Min({next - 1, Len(s)})) \o SubFrom(s, next, repl)

\* re.sub(pattern, repl, s, flags=re.MULTILINE): every match is replaced
ReSub(s, repl) == SubFrom(s, 1, repl)

----------------------------------------------------------------------------
(* update_makefile                                                         *)

\* "debug" in args and args.debug
DebugOn(args) == args.has_debug /\ args.debug

\* PatchFlags when the debug marker is never appended
PatchFlags_never_appends(value, debug) ==
    LET cflags == Strip(value)
    IN  IF ~ debug /\ Contains(cflags, Dash_g)
        THEN Strip(Replace(cflags, Dash_g, <<>>))
        ELSE cflags

\* the new value of the flags (lines 243-247)
PatchFlags(value, debug) ==
    LET cflags == Strip(value)
    IN  IF debug /\ ~ Contains(cflags, Dash_g)
        THEN Strip(cflags \o <<" ">> \o Dash_g)
        ELSE IF ~ debug /\ Contains(cflags, Dash_g)
             THEN Strip(Replace(cflags, Dash_g, <<>>))
             ELSE cflags

\* update_makefile when it reports False although it rewrote the file
update_makefile_reports_false(text, args) ==
    LET matches == FindAll(text)
    IN  IF matches = <<>>
        THEN [text |-> text, ret |-> "None"]
        ELSE [text |-> ReSub(text, <<"CFLAGS", " ">> \o matches[1].op \o <<"=", " ">>
                                   \o PatchFlags(matches[1].value, DebugOn(args))),
              ret |-> "False"]

\* update_makefile when a file without a CFLAGS line is reported as rewritten
update_makefile_no_match_true(text, args) ==
    LET matches == FindAll(text)
        new == IF matches = <<>> THEN text
               ELSE ReSub(text, <<"CFLAGS", " ">> \o matches[1].op \o <<"=", " ">>
                                \o PatchFlags(matches[1].value, DebugOn(args)))
    IN  [text |-> new, ret |-> IF matches = <<>> \/ new # text THEN "True" ELSE "False"]

\* update_makefile(path, args) on a file that holds text; ret is the value
\* returned ("None", "True" or "False"), text the content of the file after
update_makefile(text, args) ==
    LET Rewrite(match) ==
          LET cflags == PatchFlags(match.value, DebugOn(args))
          IN  ReSub(text, <<"CFLAGS", " ">> \o match.op \o <<"=", " ">> \o cflags)
        Result(new) ==
          IF new # text
          THEN [text |-> new, ret |-> "True"]
          ELSE [text |-> text, ret |-> "False"]
        Patch(matches) ==
          IF matches = <<>>
          THEN [text |-> text, ret |-> "None"]
          ELSE Only({Result(new) : new \in {Rewrite(matches[1])}})
    IN  Only({Patch(matches) : matches \in {FindAll(text)}})

----------------------------------------------------------------------------
(* Files and directories                                                   *)

NoFile == [exists |-> FALSE, text |-> <<>>]

\* write_file when the file is opened for appending
write_file_appends(old, content) == [exists |-> TRUE, text |-> old.text \o content]

\* open(path, "w").write(content) on a file that was old
write_file(old, content) == [exists |-> TRUE, text |-> content]

Slash == <<"/">>

SrcRoot == <<"s", "r", "c">>

ObjRoot == <<"o", "b", "j">>

\* os.path.join(path, file)
PathJoin(path, file) == path \o Slash \o file

\* os.path.dirname(path)
Dirname(path) ==
    LET cut == {i \in 1..Len(path) : path[i] = "/"}
    IN  IF cut = {} THEN <<>> ELSE SubSeq(path, 1, Max(cut) - 1)

\* the directories os.makedirs(path, exist_ok=True) makes sure exist
Makedirs(path) ==
    {SubSeq(path, 1, i) : i \in {k \in 1..Len(path) : k = Len(path) \/ path[k + 1] = "/"}}

RECURSIVE get_all_files(_, _)
\* get_all_files(path), where listing is what os.listdir(path) returns, each
\* entry with its own listing when it is a directory
get_all_files(path, listing) ==
    IF listing = <<>> THEN <<>>
    ELSE LET file == Head(listing)
             here == IF file.dir
                     THEN get_all_files(PathJoin(path, file.name), file.sub)
                     ELSE <<PathJoin(path, file.name)>>
         IN  here \o get_all_files(path, Tail(listing))

DotC == <<".", "c">>

DotO == <<".", "o">>

\* [file for file in files if file.endswith(".c")]
CFiles(files) == SelectSeq(files, LAMBDA f : EndsWith(f, DotC))

get_sources(tree) == Join(CFiles(get_all_files(SrcRoot, tree)), <<" ">>)

\* the object path that $(SRCS:src/%.c=obj/%.o) gives for one word of SRCS
ObjPath(file) ==
    LET pre == SrcRoot \o Slash
    IN  IF IsPrefixAt(file, 1, pre) /\ EndsWith(file, DotC) /\ Len(file) >= Len(pre) + Len(DotC)
        THEN ObjRoot \o Slash \o SubSeq(file, Len(pre) + 1, Len(file) - Len(DotC)) \o DotO
        ELSE file

\* the directories copy_source_structure makes sure exist
copy_source_structure(tree) ==
    LET Dirs(files) ==
          UNION {Makedirs(Dirname(Replace(files[i], SrcRoot, ObjRoot))) :
                   i \in {k \in 1..Len(files) : EndsWith(files[k], DotC)}}
    IN  Only({Dirs(files) : files \in {get_all_files(SrcRoot, tree)}})

----------------------------------------------------------------------------
(* The pieces of the generated Makefile                                    *)

get_c_flags(args) ==
    Strip(<<"-Wall", " ", "-Wextra", " ", "-Werror", " ", "-I./includes">>
          \o (IF DebugOn(args) THEN <<" ">> \o Dash_g ELSE <<>>)
          \o (IF args.libft \/ args.minilibx THEN <<" ", "-I./">> ELSE <<>>))

get_ld_flags(args) ==
    Strip((IF args.libft THEN <<" ", "-L./libft", " ", "-lft">> ELSE <<>>)
          \o (IF args.minilibx
              THEN <<" ", "-L./minilibx", " ", "-lmlx", " ", "-lX11", " ", "-lXext", " ", "-lm">>
              ELSE <<>>))

get_libs(args) ==
    Strip((IF args.libft THEN <<" ", "libft/libft.a">> ELSE <<>>)
          \o (IF args.minilibx THEN <<" ", "minilibx/libmlx.a">> ELSE <<>>))

get_clean_commands(args) ==
    RStrip(<<"\t", "$(RM) $(OBJS)", NL>>
           \o (IF args.libft THEN <<"\t", "$(MAKE) -C libft clean", NL>> ELSE <<>>)
           \o (IF args.minilibx THEN <<"\t", "$(MAKE) -C minilibx clean", NL>> ELSE <<>>))

get_fclean_commands(args) ==
    RStrip(<<"\t", "$(RM) $(OBJS) $(NAME)", NL>>
           \o (IF args.libft THEN <<"\t", "$(MAKE) -C libft fclean", NL>> ELSE <<>>)
           \o (IF args.minilibx THEN <<"\t", "$(MAKE) -C minilibx clean", NL>> ELSE <<>>))

get_re_commands(args) ==
    RStrip((IF args.libft THEN <<"\t", "$(MAKE) -C libft re", NL>> ELSE <<>>)
           \o (IF args.minilibx THEN <<"\t", "$(MAKE) -C minilibx re", NL>> ELSE <<>>))

get_lib_rules(args) ==
    LET rules == (IF args.libft
                  THEN <<"libft/libft.a:", NL, "\t", "$(MAKE) -C libft", NL, NL>> ELSE <<>>)
                 \o (IF args.minilibx
                     THEN <<"minilibx/libmlx.a:", NL, "\t", "$(MAKE) -C minilibx", NL, NL>> ELSE <<>>)
    IN  Strip(IF rules # <<>> THEN <<"## Libraries ##", NL, NL>> \o rules ELSE rules)

\* os.path.basename(os.getcwd())
get_project_name == <<"proj">>

\* the text that create_makefile writes (lines 124-163)
Render(args, tree) ==
    <<"# Generated using 42 tools, manual changes may be overwritten", NL, NL,
      "## Commands ##", NL, NL,
      "CC = cc", NL,
      "CFLAGS", " ", "=", " ">> \o get_c_flags(args) \o <<NL,
      "LDFLAGS", " ", "=", " ">> \o get_ld_flags(args) \o <<NL,
      "RM = rm -f", NL, NL,
      "## Files ##", NL, NL,
      "SRCS", " ", "=", " ">> \o get_sources(tree) \o <<NL,
      "OBJS = $(SRCS:src/%.c=obj/%.o)", NL, NL,
      "## Configuration ##", NL, NL,
      "NAME", " ", "=", " ">> \o get_project_name \o <<NL, NL,
      "## Compilation rules ##", NL, NL,
      "$(NAME): $(OBJS)", " ">> \o get_libs(args) \o <<NL,
      "\t", "$(CC) $(CFLAGS) $(LDFLAGS) -o $@ $^", NL, NL,
      "obj/%.o: src/%.c", NL,
      "\t", "$(CC) $(CFLAGS) -c -o $@ $<", NL, NL,
      "## Cleaning rules ##", NL, NL,
      "clean:", NL>> \o get_clean_commands(args) \o <<NL, NL,
      "fclean: clean", NL>> \o get_fclean_commands(args) \o <<NL, NL,
      "re: fclean $(NAME)", NL>> \o get_re_commands(args) \o <<NL, NL>>
      \o get_lib_rules(args) \o <<NL>>

\* update_libft_makefile / update_minilibx_makefile inside create_makefile:
\* the vendored file is patched only when the library is included
UpdateIfIncluded(included, file, args) ==
    IF included THEN update_makefile(file.text, args)
                ELSE [text |-> file.text, ret |-> "skip"]

\* create_makefile(args, warn_if_exists) run on the files mk (./Makefile),
\* lf (libft/Makefile) and mx (minilibx/Makefile.mk): the three files after
\* the call, what the two patches returned, and the value returned
create_makefile(args, warn_if_exists, mk, lf, mx, tree) ==
    LET deleted == mk.exists /\ warn_if_exists
        Finish(written, lfRes, mxRes) ==
          [makefile |-> written,
           libftMk |-> [lf EXCEPT !.text = lfRes.text],
           mlxMk |-> [mx EXCEPT !.text = mxRes.text],
           libftRet |-> lfRes.ret,
           mlxRet |-> mxRes.ret,
           modified |-> \/ deleted
                        \/ lfRes.ret = "True"
                        \/ mxRes.ret = "True"
                        \/ ~ mk.exists \/ mk.text = <<>> \/ mk.text # written.text]
    IN  Only({Finish(written, lfRes, mxRes) :
                written \in {write_file(mk, Render(args, tree))},
                lfRes \in {UpdateIfIncluded(args.libft, lf, args)},
                mxRes \in {UpdateIfIncluded(args.minilibx, mx, args)}})

----------------------------------------------------------------------------
(* Inputs                                                                  *)

\* largest number of entries directly under src
MaxEntries == 1

\* the Makefiles that the libft folder found in an ancestor may hold
LibftSources ==
    { <<"NAME = libft.a", NL,
        "CFLAGS", " ", "=", " ", "-Wall", NL,
        "CFLAGS", " ", "?", "=", " ", "-O2", NL>>,
      <<"CFLAGS", " ", "=", " ", "-", "-", "g", "g", NL>>,
      <<"NAME = libft.a", NL, "CFLAGS", " ", "+", "=", " ", "-O2", NL>> }

\* minilibx/Makefile.mk as distributed
MlxSource == <<"INC = /usr/include", NL, "CFLAGS", "=", " ", "-O3", " ", "-I$(INC)", NL>>

File(name) == [name |-> name, dir |-> FALSE, sub |-> <<>>]

Dir(name, sub) == [name |-> name, dir |-> TRUE, sub |-> sub]

\* src/m.c and the directory src/a with x.c, n.h and a directory named src
EntryPool ==
    { File(<<"m", ".", "c">>),
      Dir(<<"a">>, <<File(<<"x", ".", "c">>),
                     File(<<"n", ".", "h">>),
                     Dir(SrcRoot, <<File(<<"y", ".", "c">>)>>)>>) }

\* the listings of src: up to MaxEntries different entries, in any order
Trees ==
    UNION {{t \in [1..n -> EntryPool] : \A i, j \in 1..n : i # j => t[i] # t[j]} :
             n \in 0..MaxEntries}

----------------------------------------------------------------------------
(* Commands                                                                *)

\* the namespace argparse builds; init has no debug and no no_norminette
Args(command, libft, minilibx, debug, no_norminette) ==
    [command |-> command, libft |-> libft, minilibx |-> minilibx,
     has_debug |-> command \in {"compile", "run"}, debug |-> debug,
     has_no_norminette |-> command \in {"compile", "run"},
     no_norminette |-> no_norminette]

NoConfig == [exists |-> FALSE, libft |-> FALSE, minilibx |-> FALSE]

\* load_config when a missing file is taken as "no library included"
load_config_never_exits(args, cfg) ==
    [exit |-> FALSE,
     args |-> [args EXCEPT !.libft = cfg.libft, !.minilibx = cfg.minilibx]]

\* load_config: exit(1) when the file is missing, else the two flags are
\* taken from it
load_config(args, cfg) ==
    IF ~ cfg.exists
    THEN [exit |-> TRUE, args |-> args]
    ELSE [exit |-> FALSE,
          args |-> [args EXCEPT !.libft = cfg.libft, !.minilibx = cfg.minilibx]]

Call(tool, force, ok) == [tool |-> tool, force |-> force, ok |-> ok]

\* run_norminette, when run_compile calls it
NorminetteCalls(args, normOk) ==
    IF ~ args.has_no_norminette \/ ~ args.no_norminette
    THEN <<Call("norminette", FALSE, normOk)>>
    ELSE <<>>

\* run_make(args, force_rebuild)
run_make(force_rebuild, makeOk) == <<Call("make", force_rebuild, makeOk)>>

\* run_compile(args), where cm is what its call of create_makefile(args,
\* warn_if_exists=False) returned and made the directories that its call of
\* copy_source_structure makes sure exist: the subprocesses it ran, the
\* directories under obj after it and the value it returned (ok)
run_compile(args, cm, made, normOk, makeOk, dirs) ==
    [calls |-> NorminetteCalls(args, normOk) \o run_make(cm.modified, makeOk),
     objDirs |-> dirs \cup made,
     ok |-> makeOk]

\* LaunchCalls when the value returned by run_compile is ignored
LaunchCalls_ignores_compile(args, compiled, binOk) ==
    IF args.debug THEN <<Call("valgrind", FALSE, binOk)>>
    ELSE <<Call("binary", FALSE, binOk)>>

\* what run_run launches after run_compile returned ok
LaunchCalls(args, compiled, binOk) ==
    IF ~ compiled THEN <<>>
    ELSE IF args.debug THEN <<Call("valgrind", FALSE, binOk)>>
         ELSE <<Call("binary", FALSE, binOk)>>

NoRun == [cmd |-> "none", debug |-> FALSE, no_norminette |-> FALSE, libft |-> FALSE,
          minilibx |-> FALSE, exit |-> 0, calls |-> <<>>, rendered |-> FALSE,
          warn |-> FALSE, modified |-> FALSE, libftRet |-> "skip", mlxRet |-> "skip"]

\* the record of an invocation that ended before create_makefile
Ended(args, exit, calls) ==
    [NoRun EXCEPT !.cmd = args.command, !.debug = args.debug,
                  !.no_norminette = args.no_norminette,
                  !.libft = args.libft, !.minilibx = args.minilibx,
                  !.exit = exit, !.calls = calls]

\* the record of an invocation in which create_makefile returned cm
Rendered(args, exit, calls, warn, cm) ==
    [Ended(args, exit, calls) EXCEPT !.rendered = TRUE, !.warn = warn,
                                     !.modified = cm.modified,
                                     !.libftRet = cm.libftRet, !.mlxRet = cm.mlxRet]

Init ==
    /\ config = NoConfig
    /\ makefile = NoFile
    /\ libftMk = NoFile
    /\ mlxMk = NoFile
    /\ upLibft \in LibftSources
    /\ gitignore = FALSE
    /\ srcTree \in Trees
    /\ objDirs = {}
    /\ last = NoRun
    /\ tick = 0

\* 42 init [--libft] [--minilibx]
RunInit ==
    \E libft, minilibx \in BOOLEAN :
      LET args == Args("init", libft, minilibx, FALSE, FALSE)
          \* shutil.copytree raises when the target exists
          libftFails == libft /\ libftMk.exists
          lf == IF libft /\ ~ libftFails THEN write_file(libftMk, upLibft) ELSE libftMk
          mlxFails == ~ libftFails /\ minilibx /\ mlxMk.exists
          mx == IF minilibx /\ ~ libftFails /\ ~ mlxFails
                THEN write_file(mlxMk, MlxSource) ELSE mlxMk
      IN  \E cm \in {IF libftFails \/ mlxFails THEN <<>>
                      ELSE create_makefile(args, TRUE, makefile, lf, mx, srcTree)} :
          /\ tick' = 1 - tick
          /\ UNCHANGED <<upLibft, srcTree>>
          /\ IF libftFails \/ mlxFails
             THEN /\ libftMk' = lf
                  /\ mlxMk' = mx
                  /\ last' = Ended(args, 1, <<>>)
                  /\ UNCHANGED <<config, makefile, gitignore, objDirs>>
             ELSE /\ objDirs' = objDirs \cup Makedirs(ObjRoot)
                  /\ makefile' = cm.makefile
                  /\ libftMk' = cm.libftMk
                  /\ mlxMk' = cm.mlxMk
                  /\ gitignore' = TRUE
                  /\ config' = [exists |-> TRUE, libft |-> libft, minilibx |-> minilibx]
                  /\ last' = Rendered(args, 0, <<>>, TRUE, cm)

\* main for compile and run, after the arguments are parsed.  The result of
\* create_makefile is worked out once for both values of --no-norminette,
\* which it does not read.
Main(command) ==
    \E debug \in BOOLEAN :
      LET lc == load_config(Args(command, FALSE, FALSE, debug, FALSE), config)
      IN  /\ tick' = 1 - tick
          /\ UNCHANGED <<upLibft, srcTree, config, gitignore>>
          /\ IF lc.exit
             THEN /\ \E no_norminette \in BOOLEAN :
                       last' = Ended([lc.args EXCEPT !.no_norminette = no_norminette], 1, <<>>)
                  /\ UNCHANGED <<makefile, libftMk, mlxMk, objDirs>>
             ELSE \E cm \in {create_makefile(lc.args, FALSE, makefile, libftMk, mlxMk, srcTree)},
                     made \in {copy_source_structure(srcTree)} :
                  \E no_norminette, normOk, makeOk, binOk \in BOOLEAN :
                    LET args == [lc.args EXCEPT !.no_norminette = no_norminette]
                        rc == run_compile(args, cm, made, normOk, makeOk, objDirs)
                        launch == IF command = "run"
                                  THEN LaunchCalls(args, rc.ok, binOk) ELSE <<>>
                        \* run_command(check_result=True) raises when the
                        \* launched program fails
                        exit == IF launch # <<>> /\ ~ binOk THEN 1 ELSE 0
                    IN  /\ NorminetteCalls(args, normOk) = <<>> => normOk
                        /\ launch = <<>> => binOk
                        /\ makefile' = cm.makefile
                        /\ libftMk' = cm.libftMk
                        /\ mlxMk' = cm.mlxMk
                        /\ objDirs' = rc.objDirs
                        /\ last' = Rendered(args, exit, rc.calls \o launch, FALSE, cm)

\* 42 compile [--no-norminette] [--debug]
RunCompile == Main("compile")

\* 42 run [--no-norminette] [--debug]
RunRun == Main("run")

\* 42 update
RunUpdate ==
    \E pullOk \in BOOLEAN :
      /\ last' = Ended(Args("update", FALSE, FALSE, FALSE, FALSE),
                       IF pullOk THEN 0 ELSE 1, <<Call("git", FALSE, pullOk)>>)
      /\ tick' = 1 - tick
      /\ UNCHANGED <<config, makefile, libftMk, mlxMk, upLibft, gitignore, srcTree, objDirs>>

Next == RunInit \/ RunCompile \/ RunRun \/ RunUpdate

Spec == Init /\ [][Next]_vars

----------------------------------------------------------------------------
(* Properties                                                              *)

RECURSIVE SplitFrom(_, _)
SplitFrom(s, i) ==
    IF i > Len(s) + 1 THEN <<>>
    ELSE LET e == LineEnd(s, i)
         IN  <<SubSeq(s, i, e - 1)>> \o SplitFrom(s, e + 1)

\* the lines of a text
Lines(s) == SplitFrom(s, 1)

\* the line is a CFLAGS assignment
IsFlagsLine(line) == MatchAt(line, 1).ok

\* after differs from before at most in the first CFLAGS assignment line
OnlyFirstFlagsLineDiffers(before, after) ==
    LET b == Lines(before)
        a == Lines(after)
        flagLines == {i \in 1..Len(b) : IsFlagsLine(b[i])}
    IN  /\ Len(a) = Len(b)
        /\ \A i \in 1..Len(b) : (flagLines = {} \/ i # Min(flagLines)) => a[i] = b[i]

\* the arguments of the most recent invocation
LastArgs == Args(last.cmd, last.libft, last.minilibx, last.debug, last.no_norminette)

\* an invocation took place in this step
Invoked == tick' # tick

\* the text update_makefile reads from the vendored file in this step
LibftBefore == IF libftMk.exists THEN libftMk.text ELSE upLibft

MlxBefore == IF mlxMk.exists THEN mlxMk.text ELSE MlxSource

ToolCalled(calls, tool) == \E i \in 1..Len(calls) : calls[i].tool = tool

\* the values of all CFLAGS assignments of a text hold the debug marker
AllFlagsHaveDebug(text) ==
    \A i \in 1..Len(FindAll(text)) : Contains(FindAll(text)[i].value, Dash_g)

\* C1: every patch of libft/Makefile leaves each line other than the first
\* line matching the CFLAGS assignment pattern as it was, later matching
\* lines included.
C1_OnlyFirstFlagsLineRewritten ==
    [][libftMk.exists => OnlyFirstFlagsLineDiffers(libftMk.text, libftMk'.text)]_vars

\* C2: after update_makefile has patched libft/Makefile (it has a CFLAGS
\* line) for a debug target, a second call for the same target reports not
\* modified and leaves the file as it is.
C2_SecondPatchIsNoOp ==
    (last.rendered /\ last.libft /\ last.libftRet # "None")
      => update_makefile(libftMk.text, LastArgs) = [text |-> libftMk.text, ret |-> "False"]

\* C3 as stated: create_makefile reports modified exactly when no Makefile
\* existed before or the text written differs from the text held before.
C3_ModifiedIffTextDiffers ==
    [][(Invoked /\ last'.rendered)
         => (last'.modified <=> (~ makefile.exists \/ makefile.text # makefile'.text))]_vars

\* C3 amended: create_makefile reports modified exactly when no Makefile
\* existed before, or the text written differs from the text held before, or
\* warn_if_exists is set and a Makefile existed, or the build file of an
\* included library was rewritten by update_makefile.
C3_ModifiedIffAnythingChanged ==
    [][(Invoked /\ last'.rendered)
         => (last'.modified <=>
               \/ ~ makefile.exists
               \/ makefile.text # makefile'.text
               \/ (last'.warn /\ makefile.exists)
               \/ (last'.libft /\ libftMk'.text # LibftBefore)
               \/ (last'.minilibx /\ mlxMk'.text # MlxBefore))]_vars

C3_Witness ==
    /\ last.cmd = "compile" /\ last.rendered /\ ~ last.debug
    /\ last.libftRet = "True" /\ last.modified

\* C4: a compile that directly follows a compile with the same flags invokes
\* make without the force-rebuild flag.
C4_SecondCompileNotForced ==
    [][(/\ Invoked
        /\ last.cmd = "compile" /\ last.rendered
        /\ last'.cmd = "compile" /\ last'.rendered
        /\ last'.debug = last.debug
        /\ last'.no_norminette = last.no_norminette)
         => \A i \in 1..Len(last'.calls) :
              last'.calls[i].tool = "make" => ~ last'.calls[i].force]_vars

\* C5: after a compile with --debug in a project initialized with libft, the
\* CFLAGS line of the Makefile holds -g, and so does every CFLAGS assignment
\* line of libft/Makefile.
C5_DebugReachesBothMakefiles ==
    (last.cmd = "compile" /\ last.rendered /\ last.debug /\ last.libft)
      => /\ FindAll(makefile.text) # <<>>
         /\ Contains(FindAll(makefile.text)[1].value, Dash_g)
         /\ AllFlagsHaveDebug(libftMk.text)

C5_Witness ==
    /\ last.cmd = "compile" /\ last.rendered /\ last.debug /\ last.libft
    /\ FindAll(libftMk.text) # <<>>
    /\ last.libftRet = "True"

\* C6: compile and run without .42_config.yml end with exit status 1, no
\* Makefile written and no subprocess invoked.
C6_MissingConfigStopsEarly ==
    (last.cmd \in {"compile", "run"} /\ ~ config.exists)
      => /\ last.exit = 1
         /\ last.calls = <<>>
         /\ ~ last.rendered
         /\ ~ makefile.exists
         /\ objDirs = {}

C6_Witness == last.cmd = "run" /\ ~ config.exists /\ last.exit = 1

\* C7: in run, make is invoked whatever norminette returned, and the binary
\* (plain or under valgrind) is launched only after a make that exited zero.
C7_RunOrderAndGates ==
    (last.cmd = "run" /\ last.rendered)
      => /\ ToolCalled(last.calls, "make")
         /\ \A i \in 1..Len(last.calls) :
              last.calls[i].tool = "norminette"
                => \E j \in (i + 1)..Len(last.calls) : last.calls[j].tool = "make"
         /\ \A i \in 1..Len(last.calls) :
              last.calls[i].tool \in {"binary", "valgrind"}
                => \E j \in 1..(i - 1) : last.calls[j].tool = "make" /\ last.calls[j].ok
         /\ \A i \in 1..Len(last.calls) :
              (last.calls[i].tool = "make" /\ ~ last.calls[i].ok)
                => ~ ToolCalled(last.calls, "binary") /\ ~ ToolCalled(last.calls, "valgrind")

C7_Witness ==
    /\ last.cmd = "run"
    /\ \E i \in 1..Len(last.calls) : last.calls[i].tool = "norminette" /\ ~ last.calls[i].ok
    /\ ToolCalled(last.calls, "valgrind")

C9_ObjTreeMirrorsSrcTree ==
    ToolCalled(last.calls, "make")
      => \A i \in 1..Len(CFiles(get_all_files(SrcRoot, srcTree))) :
           Dirname(ObjPath(CFiles(get_all_files(SrcRoot, srcTree))[i])) \in objDirs

\* C10: when libft/Makefile (or minilibx/Makefile.mk) is included and has no
\* CFLAGS assignment line, the file is left as it is, create_makefile does
\* not report modified on its account, and compile and run go on to make.
C10_MissingFlagsLineIsNotFatal ==
    [][(/\ Invoked /\ last'.rendered
        /\ \/ (last'.libft /\ FindAll(LibftBefore) = <<>>)
           \/ (last'.minilibx /\ FindAll(MlxBefore) = <<>>))
         => /\ (last'.libft /\ FindAll(LibftBefore) = <<>>) => libftMk'.text = LibftBefore
            /\ (last'.minilibx /\ FindAll(MlxBefore) = <<>>) => mlxMk'.text = MlxBefore
            /\ last'.cmd \in {"compile", "run"} => ToolCalled(last'.calls, "make")
            /\ (/\ makefile.exists /\ makefile'.text = makefile.text
                /\ ~ last'.warn
                /\ libftMk'.text = LibftBefore
                /\ mlxMk'.text = MlxBefore)
                 => ~ last'.modified]_vars

C10_Witness ==
    /\ last.cmd = "compile" /\ last.rendered
    /\ last.libft /\ FindAll(libftMk.text) = <<>>
    /\ ~ last.modified
    /\ ToolCalled(last.calls, "make")

====
